---- MODULE Spec2Model ----
(***************************************************************************)
(* Verification model of the gossip feed manager                           *)
(* (plugins/gossip/feed_manager.go), the contact graph builder (package    *)
(* graph) and the legacy message verifier (message/legacy/verify.go).      *)
(*                                                                         *)
(* Sequences of the feed manager are positions in the author's sub-log     *)
(* (0-based, "our idx is 0 ed"): a feed holding N messages has positions   *)
(* 0..N-1 and the wire sequence of the message at position i is i+1.       *)
(***************************************************************************)
EXTENDS Integers, Sequences, FiniteSets, TLC

\* ------------------------------------------------------------------ bounds
\* Cap on the number of messages the modelled feed ever holds.
MaxLen == 3

\* math.MaxInt64 (feed_manager.go:142), in TLC's integer range.
MaxInt64 == 2147483647

\* The CreateStreamHistory requests of a run (their sinks).
Requests == {1, 2}
\* arg.Seq as sent on the wire (1-based, 0 = from the start).
WireSeqs == 0..MaxLen
\* arg.Limit: -1 unbounded, 0 unset, or an explicit count.
Limits == {-1, 0, 1, 2}
\* arg.Lt and arg.Gt: 0 means unset.
LtArgs == {0, 2}
GtArgs == {0, 1}
\* arg.ID.Algo: refs.RefAlgoFeedSSB1, refs.RefAlgoFeedGabby, or another.
Algos == {"ed25519", "ggfeed-v1", "other"}

VARIABLES
  feedLen,    \* number of messages stored in the author's sub-log (UserFeeds)
  pourCur,    \* number of receive-log entries the live-tail task has poured
  liveFeeds,  \* m.liveFeeds[author]: the MultiSink record, present or not
  req,        \* per request: position in CreateStreamHistory and its sink
  liveFeedsMut, \* m.liveFeedsMut: "free", or "pour" while pour holds it
  rootCtx,    \* m.rootCtx: "live" or "cancelled"
  store,      \* the contact index: key -> value byte (b.kv)
  cachedGraph,\* b.cachedGraph
  last,       \* per key, the relation of the author's most recent contact
              \* message (of those not dropped with their author)
  lastDel,    \* the author of the last DeleteAuthor, "" after an index write
  ret,        \* the last builder call and what it returned
  walk,       \* a Hops call in progress: its walked and visited sets, the
              \* stack of recurseHops frames, and the results Hops has on
              \* the store states that existed since the call began
  verified    \* the last legacy.Verify call: its message and what it returned

fmVars == <<feedLen, pourCur, liveFeeds, req, liveFeedsMut, rootCtx>>
graphVars == <<store, cachedGraph, last, lastDel, ret, walk>>
verifyVars == <<verified>>
vars == <<feedLen, pourCur, liveFeeds, req, liveFeedsMut, rootCtx,
          store, cachedGraph, last, lastDel, ret, walk, verified>>


\* ------------------------------------------------- feed manager: functions

\* getLatestSeq: the sub-log's latest position; an unset value reads as 0.
getLatestSeq(len) == IF len = 0 THEN 0 ELSE len - 1

\* Mutant: the explicit limit is not capped at the latest sequence read.
nonliveLimit_uncapped(argSeq, argLimit, curSeq) == argLimit

\* Mutant: the unbounded limit capped at the latest sequence read.
nonliveLimit_capped(argSeq, argLimit, curSeq) ==
  LET lastSeq == IF argLimit = -1 THEN curSeq ELSE argSeq + argLimit - 1
      capped == IF lastSeq > curSeq THEN curSeq ELSE lastSeq
  IN capped - argSeq + 1

nonliveLimit(argSeq, argLimit, curSeq) ==
  IF argLimit = -1 THEN -1
  ELSE LET lastSeq == argSeq + argLimit - 1
           capped == IF lastSeq > curSeq THEN curSeq ELSE lastSeq
       IN capped - argSeq + 1

liveLimit(argSeq, argLimit, curSeq) ==
  IF argLimit = -1 THEN -1
  ELSE LET startSeq == curSeq + 1
           lastSeq == argSeq + argLimit - 1
       IN IF lastSeq < curSeq THEN 0 ELSE lastSeq - startSeq + 1

\* Mutant: the check for a start past the latest sequence is missing.
PastEnd_never(argSeq, latest) == FALSE

\* "if arg.Seq > latest { // more than we got"
PastEnd(argSeq, latest) == argSeq > latest

\* The switch on arg.ID.Algo has a sink wrapper for these.
Supported(algo) == algo \in {"ed25519", "ggfeed-v1"}

\* Mutant: a cancelled drain of a live request goes on to addLiveFeed.
AfterCancel_live(live) == IF live THEN "register" ELSE "cancelled"

\* Where CreateStreamHistory goes when the pump ends with context.Canceled
\* or a closed sink: sink.Close() and return nil, live or not.
AfterCancel(live) == "cancelled"

\* Mutant: the unbounded live limit gives an until one past seq.
Until_finite(seq, limit) == IF limit = -1 THEN seq + 1 ELSE seq + limit

\* until := seq + limit; math.MaxInt64 when limit == -1
Until(seq, limit) == IF limit = -1 THEN MaxInt64 ELSE seq + limit

\* First position the historical query can yield: Gte(arg.Seq) when
\* arg.Seq > 0, Gt(arg.Gt) when arg.Gt > 0.
QueryStart(argSeq, gt) ==
  LET a == IF argSeq > 0 THEN argSeq ELSE 0
      b == IF gt > 0 THEN gt + 1 ELSE 0
  IN IF a > b THEN a ELSE b

\* Whether the (non-live) cursor of the historical query has a next entry:
\* Limit(n) with n < 0 unbounded, Lt(arg.Lt) when arg.Lt > 0, and the end of
\* the log as it is when the cursor is advanced.
QueryHasNext(r, len) ==
  /\ r.pos < len
  /\ (r.qlimit < 0 \/ Len(r.hist) < r.qlimit)
  /\ (r.lt > 0 => r.pos < r.lt)

\* A request before its call.  wire, wlimit: arg.Seq and arg.Limit as
\* received; argSeq, limit: as CreateStreamHistory rewrites them; latest:
\* the latest sequence it read; qlimit, pos: the historical cursor; hist,
\* livef: the positions written to the sink by the pump and by pour;
\* closed: the number of times the sink was closed; regSeq, regLimit,
\* until: addLiveFeed's seq, limit and until; endLen: the feed's length
\* when the historical cursor ended.  algo: arg.ID.Algo; err: the error
\* returned ("" for nil); sent: what was added to the gossiptx counter;
\* cancelled: the pump ended with context.Canceled or a closed sink;
\* callLen: the feed's length at the call.
IdleReq == [pc |-> "idle", wire |-> 0, wlimit |-> 0, argSeq |-> 0, limit |-> 0,
            live |-> FALSE, lt |-> 0, gt |-> 0, latest |-> 0, qlimit |-> 0,
            pos |-> 0, hist |-> <<>>, livef |-> <<>>, closed |-> 0,
            regSeq |-> 0, regLimit |-> 0, until |-> 0, registered |-> FALSE,
            endLen |-> 0, algo |-> "ed25519", err |-> "", sent |-> 0,
            cancelled |-> FALSE, callLen |-> 0]

\* ------------------------------------------------------------- MultiSink
\* luigiutils.MultiSink: broadcast sequence, registered sinks, until per sink.

NewMultiSink(seq) ==
  [present |-> TRUE, seq |-> seq, sinks |-> {}, until |-> [r \in Requests |-> 0]]

\* No entry for the author in m.liveFeeds.
NoSink == [present |-> FALSE, seq |-> 0, sinks |-> {}, until |-> [r \in Requests |-> 0]]

\* register(ctx, sink, until): a consumer whose until is not past the
\* broadcast sequence is closed at once instead of being added.
MSClosesAtRegister(ms, until) == until <= ms.seq

MSRegister(ms, r, until) ==
  IF MSClosesAtRegister(ms, until) THEN ms
  ELSE [ms EXCEPT !.sinks = @ \cup {r}, !.until[r] = until]

\* send(msg): the broadcast sequence is incremented and is the sequence the
\* message is given (Send receives the encoded bytes only).
MSWrites(ms, r) == r \in ms.sinks /\ ms.seq + 1 <= ms.until[r]
MSCloses(ms, r) == r \in ms.sinks /\ ms.seq + 1 = ms.until[r]

MSSend(ms) ==
  [ms EXCEPT !.seq = @ + 1, !.sinks = {r \in @ : ~MSCloses(ms, r)}]

\* -------------------------------------------------- feed manager: actions

\* The receive log gets a new message of the author; the sub-log index
\* follows it.
AppendMsg ==
  /\ feedLen < MaxLen
  /\ feedLen' = feedLen + 1
  /\ UNCHANGED <<pourCur, liveFeeds, req, liveFeedsMut, rootCtx, graphVars, verifyVars>>

\* serveLiveFeeds: the live query on the receive log hands the next
\* message to pour, which sends it to the author's MultiSink when the map
\* holds one.
pourSend ==
  /\ pourCur' = pourCur + 1
  /\ IF ~liveFeeds.present
       THEN UNCHANGED <<liveFeeds, req>>
       ELSE /\ liveFeeds' = MSSend(liveFeeds)
            /\ req' = [r \in Requests |->
                 [req[r] EXCEPT
                    !.livef = IF MSWrites(liveFeeds, r) THEN Append(@, pourCur) ELSE @,
                    !.closed = IF MSCloses(liveFeeds, r) THEN @ + 1 ELSE @]]

\* The live query has a next message while the root context is live.
TailHasNext == rootCtx = "live" /\ pourCur < feedLen

\* pour as one step, from Lock to the deferred Unlock.
pour ==
  /\ TailHasNext
  /\ liveFeedsMut = "free"
  /\ pourSend
  /\ UNCHANGED <<feedLen, liveFeedsMut, rootCtx, graphVars, verifyVars>>

\* pour in two steps.  First m.liveFeedsMut.Lock() ...
pourLock ==
  /\ TailHasNext
  /\ liveFeedsMut = "free"
  /\ liveFeedsMut' = "pour"
  /\ UNCHANGED <<feedLen, pourCur, liveFeeds, req, rootCtx, graphVars, verifyVars>>

\* ... then the lookup, sink.Send and the deferred Unlock.
pourDeliver ==
  /\ liveFeedsMut = "pour"
  /\ pourSend
  /\ liveFeedsMut' = "free"
  /\ UNCHANGED <<feedLen, rootCtx, graphVars, verifyVars>>

\* The root context is cancelled: luigi.Pump in serveLiveFeeds returns and
\* the live-tail task logs and exits.
Shutdown ==
  /\ rootCtx = "live"
  /\ rootCtx' = "cancelled"
  /\ UNCHANGED <<feedLen, pourCur, liveFeeds, req, liveFeedsMut, graphVars, verifyVars>>

\* addLiveFeed(ctx, sink, ssbID, seq, limit), under liveFeedsMut: the
\* MultiSink is created at seq when the map has none, and the sink is
\* registered with until = seq + limit.
addLiveFeed(r) ==
  /\ req[r].pc = "register"
  /\ liveFeedsMut = "free"
  /\ LET liveFeed == IF liveFeeds.present THEN liveFeeds
                     ELSE NewMultiSink(req[r].regSeq)
         until == Until(req[r].regSeq, req[r].regLimit)
     IN /\ liveFeeds' = MSRegister(liveFeed, r, until)
        /\ req' = [req EXCEPT ![r].pc = "live",
                              ![r].registered = TRUE,
                              ![r].until = until,
                              ![r].closed =
                                 IF MSClosesAtRegister(liveFeed, until) THEN @ + 1 ELSE @]
  /\ UNCHANGED <<feedLen, pourCur, liveFeedsMut, rootCtx, graphVars, verifyVars>>

\* CreateStreamHistory up to the start of the pump: the latest sequence is
\* read, arg.Seq is made 0-based, a start past the latest goes to
\* addLiveFeed (live) or closes the sink, otherwise the historical query is
\* made and the sink is wrapped for the feed's algorithm, or the call returns
\* "unsupported feed format".
CreateStreamHistory(r, lts, gts, algos) ==
  /\ req[r].pc = "idle"
  /\ \A q \in Requests : q < r => req[q].pc # "idle"
  /\ \E wire \in WireSeqs, limit \in Limits, live \in BOOLEAN,
        lt \in lts, gt \in gts, algo \in algos :
       LET latest == getLatestSeq(feedLen)
           argSeq == IF wire # 0 THEN wire - 1 ELSE 0
           base == [req[r] EXCEPT !.wire = wire, !.wlimit = limit,
                                  !.argSeq = argSeq, !.limit = limit,
                                  !.live = live, !.lt = lt, !.gt = gt,
                                  !.latest = latest, !.algo = algo,
                                  !.callLen = feedLen]
       IN IF wire # 0 /\ PastEnd(argSeq, latest)
            THEN IF live
                   THEN req' = [req EXCEPT ![r] =
                          [base EXCEPT !.pc = "register", !.regSeq = latest,
                                       !.regLimit = liveLimit(argSeq, limit, latest)]]
                   ELSE req' = [req EXCEPT ![r] =
                          [base EXCEPT !.pc = "done", !.closed = @ + 1]]
            ELSE LET lim == IF live /\ limit = 0 THEN -1 ELSE limit
                 IN IF Supported(algo)
                      THEN req' = [req EXCEPT ![r] =
                             [base EXCEPT !.pc = "drain", !.limit = lim,
                                          !.qlimit = nonliveLimit(argSeq, lim, latest),
                                          !.pos = QueryStart(argSeq, gt)]]
                      ELSE req' = [req EXCEPT ![r] =
                             [base EXCEPT !.pc = "failed", !.limit = lim,
                                          !.err = "unsupported feed format"]]
  /\ UNCHANGED <<feedLen, pourCur, liveFeeds, liveFeedsMut, rootCtx, graphVars, verifyVars>>

\* luigi.Pump of the historical cursor into the sink, one entry a step.
PumpNext(r) ==
  /\ req[r].pc = "drain"
  /\ QueryHasNext(req[r], feedLen)
  /\ req' = [req EXCEPT ![r].hist = Append(@, req[r].pos), ![r].pos = @ + 1]
  /\ UNCHANGED <<feedLen, pourCur, liveFeeds, liveFeedsMut, rootCtx, graphVars, verifyVars>>

\* The cursor ends: the count of sent messages goes to the gossiptx
\* counter; a live request goes on to addLiveFeed at the latest sequence
\* read at the start, any other closes the sink.
PumpDone(r) ==
  /\ req[r].pc = "drain"
  /\ ~QueryHasNext(req[r], feedLen)
  /\ IF req[r].live
       THEN req' = [req EXCEPT ![r].pc = "register", ![r].regSeq = req[r].latest,
                      ![r].regLimit = liveLimit(req[r].argSeq, req[r].limit, req[r].latest),
                      ![r].endLen = feedLen, ![r].sent = Len(req[r].hist)]
       ELSE req' = [req EXCEPT ![r].pc = "done", ![r].closed = @ + 1,
                      ![r].endLen = feedLen, ![r].sent = Len(req[r].hist)]
  /\ UNCHANGED <<feedLen, pourCur, liveFeeds, liveFeedsMut, rootCtx, graphVars, verifyVars>>

\* The pump returns context.Canceled or a closed-sink error: the count goes
\* to the counter, the sink is closed and the call returns nil.
PumpCancel(r) ==
  /\ req[r].pc = "drain"
  /\ LET next == AfterCancel(req[r].live)
     IN req' = [req EXCEPT ![r].pc = next, ![r].cancelled = TRUE,
                           ![r].closed = @ + 1,
                           ![r].sent = Len(req[r].hist),
                           ![r].regSeq = IF next = "register" THEN req[r].latest ELSE @,
                           ![r].regLimit = IF next = "register"
                                             THEN liveLimit(req[r].argSeq, req[r].limit, req[r].latest)
                                             ELSE @]
  /\ UNCHANGED <<feedLen, pourCur, liveFeeds, liveFeedsMut, rootCtx, graphVars, verifyVars>>

\* The pump returns any other error: the count goes to the counter and the
\* call returns "failed to pump messages to peer".
PumpFail(r) ==
  /\ req[r].pc = "drain"
  /\ req' = [req EXCEPT ![r].pc = "failed", ![r].sent = Len(req[r].hist),
                        ![r].err = "failed to pump messages to peer"]
  /\ UNCHANGED <<feedLen, pourCur, liveFeeds, liveFeedsMut, rootCtx, graphVars, verifyVars>>

\* The contact graph before any event.
Absent == "absent"
NilGraph == [nil |-> TRUE, nodes |-> {}, edges |-> {}]
NoRet == [op |-> "none", from |-> "", max |-> 0, result |-> {},
          graph |-> NilGraph, err |-> FALSE]

\* No Hops call in progress.
NoWalk == [active |-> FALSE, from |-> "", max |-> 0, walked |-> {}, vis |-> {},
           stack |-> <<>>, ok |-> {}, writes |-> 0]

\* ---- legacy.Verify (message/legacy/verify.go) ----

\* The bounds of "tlen < 3 || tlen > 53" on len(typedContent.Type).
MinTypeLen == 3
MaxTypeLen == 53

\* The type strings of a content object: the number of characters, and
\* the bytes each of them takes in the UTF-8 string len() is taken of.  No
\* type field gives the empty string.
TypeChars == {0, 1, 2, 3, 52, 53, 54}
CharWidths == {1, 3}
Types == {[chars |-> c, bytes |-> c * w] : c \in TypeChars, w \in CharWidths}

\* dmsg.Content: absent, a JSON object, a JSON string, or another value.
Contents == {"none", "object", "string", "other"}

\* The raw messages Verify is called with, by what its steps see of them:
\* whether EncodePreserveOrder and the unmarshal into DeserializedMessage
\* succeed, the hash field, the content and whether it unmarshals into
\* typedContent or a string, the type of an object, the ".box"/".box2"
\* suffix of a string, whether the signature is found, whether it is
\* valid for the author (under the hmac key, if any), and whether
\* InternalV8Binary converts the message.
Messages ==
  [encodes : BOOLEAN, parses : BOOLEAN, hash : {"sha256", "other"},
   content : Contents, contentParses : BOOLEAN, type : Types,
   boxed : BOOLEAN, hasSig : BOOLEAN, sigValid : BOOLEAN, v8 : BOOLEAN]

\* What a Verify call returns and whether it came to sig.Verify.
Rejected(e) == [err |-> e, sigChecked |-> FALSE]

\* The type test of a content object passes.
TypeLenOK(tlen) == ~(tlen < MinTypeLen \/ tlen > MaxTypeLen)

\* Verify(raw, hmacSecret), test by test in the order of the code.
Verify(m) ==
  IF ~m.encodes THEN Rejected("could not encode message")
  ELSE IF ~m.parses THEN Rejected("could not json.Unmarshal message")
  ELSE IF m.hash # "sha256" THEN Rejected("scuttlebutt happend anyway")
  ELSE IF m.content = "none" THEN Rejected("has no content")
  ELSE IF m.content = "other" THEN Rejected("unexpected content")
  ELSE IF ~m.contentParses THEN Rejected("content unmarshal")
  ELSE IF m.content = "object" /\ ~TypeLenOK(m.type.bytes)
    THEN Rejected("scuttlebutt v1 requires a type field")
  ELSE IF m.content = "string" /\ ~m.boxed
    THEN Rejected("private messages need to have the right suffix")
  ELSE IF ~m.hasSig THEN Rejected("could not extract signature")
  ELSE IF ~m.sigValid
    THEN [err |-> "could not verify message", sigChecked |-> TRUE]
  ELSE IF ~m.v8
    THEN [err |-> "could hash convert message", sigChecked |-> TRUE]
  ELSE [err |-> "", sigChecked |-> TRUE]

\* No Verify call yet, for the message msg.
NotVerified(msg) == [msg |-> msg, called |-> FALSE, err |-> "", sigChecked |-> FALSE]

InitVerifyIdle ==
  verified = NotVerified(CHOOSE m \in Messages : ~m.encodes)

\* Verify is called with the message at hand.
VerifyCall ==
  /\ ~verified.called
  /\ LET out == Verify(verified.msg)
     IN verified' = [verified EXCEPT !.called = TRUE, !.err = out.err,
                                     !.sigChecked = out.sigChecked]
  /\ UNCHANGED <<fmVars, graphVars>>

InitGraphIdle ==
  /\ store = [k \in {} |-> Absent]
  /\ cachedGraph = NilGraph
  /\ last = [k \in {} |-> Absent]
  /\ lastDel = ""
  /\ ret = NoRet
  /\ walk = NoWalk

InitFMVars ==
  /\ feedLen = 0
  /\ pourCur = 0
  /\ liveFeeds = NoSink
  /\ req = [r \in Requests |-> IdleReq]
  /\ liveFeedsMut = "free"
  /\ rootCtx = "live"

InitFM ==
  /\ InitFMVars
  /\ InitVerifyIdle
  /\ InitGraphIdle

NextFM ==
  \/ AppendMsg
  \/ pour
  \/ \E r \in Requests : CreateStreamHistory(r, {0}, {0}, {"ed25519"})
  \/ \E r \in Requests : PumpNext(r)
  \/ \E r \in Requests : PumpDone(r)
  \/ \E r \in Requests : addLiveFeed(r)

\* Several requests on the feed, none using the lt and gt filters.
SpecFM == InitFM /\ [][NextFM]_vars

\* One request, with every setting of the lt and gt filters and of the
\* feed algorithm, and a pump that can be cancelled or fail.
NextFMQ ==
  \/ AppendMsg
  \/ pour
  \/ CreateStreamHistory(1, LtArgs, GtArgs, Algos)
  \/ PumpNext(1)
  \/ PumpDone(1)
  \/ PumpCancel(1)
  \/ PumpFail(1)
  \/ addLiveFeed(1)

SpecFMQ == InitFM /\ [][NextFMQ]_vars

\* The same with a live-tail task that keeps pouring while it has a next
\* message.
SpecFMQLive == SpecFMQ /\ WF_vars(pour)

\* One request and the live-tail task step by step, with the shutdown of
\* the root context; every task keeps running while it can.
NextFMTail ==
  \/ AppendMsg
  \/ pourLock
  \/ pourDeliver
  \/ Shutdown
  \/ CreateStreamHistory(1, {0}, {0}, {"ed25519"})
  \/ PumpNext(1)
  \/ PumpDone(1)
  \/ addLiveFeed(1)

SpecFMTail ==
  /\ InitFM
  /\ [][NextFMTail]_vars
  /\ WF_vars(pourLock) /\ WF_vars(pourDeliver)
  /\ WF_vars(PumpNext(1)) /\ WF_vars(PumpDone(1)) /\ WF_vars(addLiveFeed(1))

\* ------------------------------------------------- feed manager: claims

\* The positions written to request r's sink, in order.
Frames(r) == req[r].hist \o req[r].livef

Occurrences(sq, i) == Cardinality({k \in 1..Len(sq) : sq[k] = i})

\* The request's start (arg.Seq, 0-based) is past the latest sequence it read.
StartPastEnd(r) == req[r].wire # 0 /\ req[r].wire - 1 > req[r].latest

\* The historical cursor of r has ended.
Drained(r) == req[r].pc \in {"register", "live", "done"} /\ ~StartPastEnd(r)

\* C1: for a request with live=true and limit=-1, no position is written to
\* the sink twice, and once the request is registered every position at or
\* after its start that the live-tail task has already poured is in the sink.
C1_ExactlyOnce ==
  \A r \in Requests :
    (req[r].pc # "idle" /\ req[r].live /\ req[r].wlimit = -1) =>
      /\ \A i \in 0..MaxLen : Occurrences(Frames(r), i) <= 1
      /\ req[r].pc = "live" =>
           \A i \in req[r].argSeq..(pourCur - 1) : Occurrences(Frames(r), i) = 1

\* C2: every position delivered to a registered consumer by pour/Send lies
\* after its registration watermark and not after its until.
C2_LiveWindow ==
  \A r \in Requests :
    req[r].registered =>
      \A k \in 1..Len(req[r].livef) :
        req[r].regSeq < req[r].livef[k] /\ req[r].livef[k] <= req[r].until

\* C9: a request with live=false whose start is past the latest sequence
\* has its sink closed, no frame written and no live registration.
C9_PastEndNonLive ==
  \A r \in Requests :
    (req[r].pc # "idle" /\ ~req[r].live /\ StartPastEnd(r)) =>
      /\ req[r].pc = "done"
      /\ req[r].closed = 1
      /\ Frames(r) = <<>>
      /\ ~req[r].registered
      /\ r \notin liveFeeds.sinks

C9_Witness ==
  \E r \in Requests :
    /\ req[r].pc = "done" /\ ~req[r].live /\ StartPastEnd(r)
    /\ req[r].closed = 1
    /\ feedLen > req[r].wire

\* C10 as stated: with limit=-1 and a start not past cur, the historical
\* phase emits cur - arg.seq + 1 frames, whatever lt and gt are and whatever
\* is appended during the drain (taken for cur >= 1, where the feed is
\* known to have held cur + 1 messages at the call).
C10_HistCount ==
  \A r \in Requests :
    (Drained(r) /\ req[r].wlimit = -1 /\ req[r].latest >= 1) =>
      Len(req[r].hist) = req[r].latest - req[r].argSeq + 1

\* C10 amended: with limit=-1, a start not past cur and lt, gt unset, the
\* historical phase emits the positions from arg.seq to the end of the feed
\* as it is when the cursor ends; that is cur - arg.seq + 1 frames when the
\* feed then holds cur + 1 messages.
C10_HistCountAmended ==
  \A r \in Requests :
    (Drained(r) /\ req[r].wlimit = -1 /\ req[r].lt = 0 /\ req[r].gt = 0) =>
      /\ Len(req[r].hist) = req[r].endLen - req[r].argSeq
      /\ \A k \in 1..Len(req[r].hist) : req[r].hist[k] = req[r].argSeq + k - 1
      /\ req[r].endLen = req[r].latest + 1 =>
           Len(req[r].hist) = req[r].latest - req[r].argSeq + 1

C10_Witness ==
  \E r \in Requests :
    /\ Drained(r) /\ req[r].wlimit = -1 /\ req[r].lt = 0 /\ req[r].gt = 0
    /\ req[r].endLen = req[r].latest + 1
    /\ Len(req[r].hist) = 2
    /\ req[r].argSeq = 1

\* C11: a request with limit=0 and live=true is registered with an
\* unbounded until and is not closed at its registration, whether or not
\* its start is past cur.
C11_ZeroLimitUnbounded ==
  \A r \in Requests :
    (req[r].registered /\ req[r].live /\ req[r].wlimit = 0) =>
      /\ req[r].until = MaxInt64
      /\ req[r].closed = 0

Min(a, b) == IF a < b THEN a ELSE b

\* A non-live request of a supported feed with no lt or gt, a wire start
\* s >= 1 and a limit n >= 1, made when the feed held at least s messages,
\* whose call has returned without a pump error or cancellation.
BoundedHistoryDone(r) ==
  /\ req[r].pc = "done" /\ ~req[r].live
  /\ req[r].lt = 0 /\ req[r].gt = 0
  /\ req[r].wire >= 1 /\ req[r].wlimit >= 1
  /\ req[r].callLen >= req[r].wire

\* C12: such a request gets exactly min(n, N - s + 1) frames, carrying the
\* sequences s, s+1, ... (positions s-1, s, ...), its sink is closed once,
\* and the gossiptx counter gets the number of frames.
C12_BoundedHistory ==
  \A r \in Requests :
    BoundedHistoryDone(r) =>
      /\ Len(Frames(r)) = Min(req[r].wlimit, req[r].callLen - req[r].wire + 1)
      /\ \A k \in 1..Len(Frames(r)) : Frames(r)[k] + 1 = req[r].wire + k - 1
      /\ req[r].closed = 1
      /\ req[r].sent = Len(Frames(r))
      /\ req[r].err = ""

\* A limit larger than what the feed held, with messages appended before
\* the cursor ended.
C12_Witness ==
  \E r \in Requests :
    /\ BoundedHistoryDone(r)
    /\ req[r].wire = 2 /\ req[r].wlimit = 2 /\ req[r].callLen = 2
    /\ req[r].endLen = 3
    /\ Frames(r) = <<1>>

\* C13: a request for a feed of another algorithm returns the
\* unsupported-format error, whatever seq, limit and live are; no frame is
\* sent, the sink is not closed and nothing is registered.
C13_UnsupportedAlways ==
  \A r \in Requests :
    (req[r].pc # "idle" /\ ~Supported(req[r].algo)) =>
      /\ req[r].pc = "failed"
      /\ req[r].err = "unsupported feed format"
      /\ Frames(r) = <<>>
      /\ req[r].closed = 0
      /\ ~req[r].registered

\* C14: when the drain ends with a cancelled context or a closed sink, the
\* sink is closed, the call returns nil and the request is never
\* registered, live or not; any other drain error is returned.
C14_CancelledDrain ==
  \A r \in Requests :
    /\ req[r].cancelled =>
         /\ req[r].pc = "cancelled"
         /\ req[r].closed = 1
         /\ req[r].err = ""
         /\ ~req[r].registered
         /\ r \notin liveFeeds.sinks
    /\ (req[r].pc = "failed" /\ Supported(req[r].algo)) =>
         /\ req[r].err = "failed to pump messages to peer"
         /\ ~req[r].registered
         /\ ~req[r].cancelled

\* A live request cancelled after a frame, with messages poured since.
C14_Witness ==
  \E r \in Requests :
    /\ req[r].cancelled /\ req[r].live
    /\ Len(req[r].hist) = 1
    /\ req[r].sent = 1
    /\ pourCur = feedLen /\ feedLen = MaxLen

\* C15: once the root context is cancelled, every sink still registered
\* as a live subscription is eventually closed, and closed once.
C15_ShutdownCloses ==
  \A r \in Requests :
    [](rootCtx = "cancelled" /\ r \in liveFeeds.sinks
         => <>(r \notin liveFeeds.sinks /\ req[r].closed = 1))

\* A live request with limit=-1 whose start is past the latest sequence.
LivePastEnd(r) ==
  req[r].pc # "idle" /\ req[r].live /\ req[r].wlimit = -1 /\ StartPastEnd(r)

C16_Registered ==
  \A r \in Requests :
    LivePastEnd(r) =>
      /\ req[r].hist = <<>>
      /\ req[r].closed = 0
      /\ req[r].pc \in {"register", "live"}
      /\ req[r].pc = "live" =>
           /\ req[r].registered /\ r \in liveFeeds.sinks
           /\ req[r].regSeq = req[r].latest
           /\ req[r].until = MaxInt64
           /\ liveFeeds.until[r] = MaxInt64

\* C16: a live request with limit=-1 whose start is past cur gets no
\* historical frame and no close, is registered at watermark cur with an
\* unbounded until, and every message appended after the registration
\* is delivered to its sink.
C16_LivePastEnd ==
  /\ []C16_Registered
  /\ \A r \in Requests : \A p \in 0..(MaxLen - 1) :
       []((LivePastEnd(r) /\ req[r].pc = "live" /\ feedLen <= p)
            => [](feedLen > p => <>(Occurrences(req[r].livef, p) = 1)))

\* A registration on a feed of one message, and the two messages appended
\* after it delivered.
C16_Witness ==
  \E r \in Requests :
    /\ LivePastEnd(r) /\ req[r].pc = "live"
    /\ req[r].callLen = 1
    /\ req[r].livef = <<1, 2>>

\* C17: liveFeedsMut is not held while a message is being delivered, so a
\* request that has reached addLiveFeed is never kept waiting by pour.
C17_MutexNotHeldInDelivery ==
  \A r \in Requests : req[r].pc = "register" => liveFeedsMut # "pour"

\* C19: a live request with an explicit limit n >= 1 gets at most n
\* frames over its historical and live phases.
C19_LiveLimitTotal ==
  \A r \in Requests :
    (req[r].live /\ req[r].wlimit >= 1) => Len(Frames(r)) <= req[r].wlimit

\* ======================================================== contact graph

\* The feeds of the contact graph.  storedrefs.Feed maps a feed to a 34-byte
\* value one-to-one, so a store key is the pair <<author, contact>> and the
\* keys with prefix storedrefs.Feed(f) are the pairs whose first part is f.
Feeds == {"A", "B", "C", "D"}

Keys == Feeds \X Feeds

\* What the store holds under a key: nothing, or the value byte.
Bytes == {"0", "1", "2"}
Stores == [Keys -> {Absent} \cup Bytes]

EmptyStore == [k \in Keys |-> Absent]

\* Follows: the second half of every key with the author's prefix whose
\* value starts with '1'.
Follows(kv, forRef) == {t \in Feeds : kv[<<forRef, t>>] = "1"}

\* recurseHops.  A state of the walk is [walked, vis].  followLst comes from
\* a map-backed set, so the loop may take its entries in any order: the
\* operators give the set of states the call can end in.
RECURSIVE recurseHops(_, _, _, _), hopsLoop(_, _, _, _, _)

\* The friend test of the loop body: "isF := dstFollows.Has(from)".
IsFriend(kv, from, followedByFrom) == from \in Follows(kv, followedByFrom)

\* The loop over followLst with todo still to visit.
hopsLoop(kv, st, from, depth, todo) ==
  IF todo = {} THEN {st}
  ELSE UNION { LET st1 == [st EXCEPT !.walked = @ \cup {x}]
                   after == IF IsFriend(kv, from, x)
                              THEN recurseHops(kv, st1, x, depth - 1)
                              ELSE {st1}
               IN UNION { hopsLoop(kv, s2, from, depth, todo \ {x}) : s2 \in after }
             : x \in todo }

recurseHops(kv, st, from, depth) ==
  IF depth = 0 THEN {st}
  ELSE IF from \in st.vis THEN {st}
  ELSE { [s EXCEPT !.vis = @ \cup {from}] :
           s \in hopsLoop(kv, st, from, depth, Follows(kv, from)) }

\* Mutant: max is not incremented before the walk.
Hops_noIncrement(kv, from, max) ==
  { s.walked \ {from} :
      s \in recurseHops(kv, [walked |-> {}, vis |-> {}], from, max) }

\* Hops(from, max): the sets the call can return.
Hops(kv, from, max) ==
  { s.walked \ {from} :
      s \in recurseHops(kv, [walked |-> {}, vis |-> {}], from, max + 1) }

\* The largest max argument of a Hops call.
MaxHops == 2
\* The largest number of follow entries in a store Hops is called on.
MaxFollows == 6
\* The largest number of keys the contact index holds.
MaxEntries == 4

\* The feeds that publish contact messages and are named in them.
Authors == {"A", "B", "C"}

\* Hops is called on the store as it is; ret keeps the call and what it
\* returned.
HopsCall(from, max) ==
  /\ ret.op # "Hops"
  /\ \E res \in Hops(store, from, max) :
       ret' = [NoRet EXCEPT !.op = "Hops", !.from = from, !.max = max, !.result = res]
  /\ UNCHANGED <<store, cachedGraph, last, lastDel, walk, fmVars, verifyVars>>

\* A Hops call in progress has the store kv written under it: Hops takes no
\* lock and every Follows is a read transaction of its own, so the call
\* goes on over the new state.  ok gains what Hops returns on kv.
Observed(kv) ==
  IF walk.active
    THEN [walk EXCEPT !.ok = @ \cup Hops(kv, walk.from, walk.max), !.writes = @ + 1]
    ELSE walk

\* The least int: what max++ gives at the largest one.
MinInt64 == -MaxInt64 - 1

\* "max++" and "depth-1" on Go's int, which wraps around.
IncInt(n) == IF n = MaxInt64 THEN MinInt64 ELSE n + 1
DecInt(n) == IF n = MinInt64 THEN MaxInt64 ELSE n - 1

\* The number of recurseHops frames a goroutine's stack has room for; the
\* runtime ends the process with "stack overflow" when a call needs more.
MaxStack == 5

\* A frame of recurseHops: at "enter" before its Follows(from), at "loop"
\* inside "for i, followedByFrom := range followLst".
Frame(from, depth) == [from |-> from, depth |-> depth, at |-> "enter", todo |-> {}]

Pop(stack) == SubSeq(stack, 1, Len(stack) - 1)

\* Hops(from, max) up to the call of recurseHops.  ok is kept for the
\* calls with max up to MaxHops.
HopsBegin(from, max) ==
  /\ ~walk.active /\ ret.op # "Hops"
  /\ walk' = [active |-> TRUE, from |-> from, max |-> max, walked |-> {},
              vis |-> {}, stack |-> <<Frame(from, IncInt(max))>>,
              ok |-> IF max <= MaxHops THEN Hops(store, from, max) ELSE {},
              writes |-> 0]
  /\ ret' = NoRet
  /\ UNCHANGED <<store, cachedGraph, last, lastDel, fmVars, verifyVars>>

\* One step of recurseHops, with at most one read of the store: entering a
\* frame (the depth and visited tests, then Follows(from)), or one turn of
\* the loop (walked.AddRef, Follows(followedByFrom), the friend test and
\* the recursive call), or the end of the loop (vis[from] is set).  No
\* step is taken once the stack has run out.
HopsStep ==
  /\ walk.active /\ walk.stack # <<>>
  /\ Len(walk.stack) <= MaxStack
  /\ LET n == Len(walk.stack)
         top == walk.stack[n]
     IN IF top.at = "enter"
          THEN IF top.depth = 0 \/ top.from \in walk.vis
                 THEN walk' = [walk EXCEPT !.stack = Pop(@)]
                 ELSE walk' = [walk EXCEPT !.stack[n] =
                                 [top EXCEPT !.at = "loop", !.todo = Follows(store, top.from)]]
          ELSE IF top.todo = {}
                 THEN walk' = [walk EXCEPT !.vis = @ \cup {top.from}, !.stack = Pop(@)]
                 ELSE \E x \in top.todo :
                        LET rest == [walk.stack EXCEPT ![n].todo = @ \ {x}]
                        IN walk' = [walk EXCEPT
                             !.walked = @ \cup {x},
                             !.stack = IF IsFriend(store, top.from, x)
                                         THEN Append(rest, Frame(x, DecInt(top.depth)))
                                         ELSE rest]
  /\ UNCHANGED <<store, cachedGraph, last, lastDel, ret, fmVars, verifyVars>>

\* recurseHops has returned: walked.Delete(from); return walked.
HopsEnd ==
  /\ walk.active /\ walk.stack = <<>>
  /\ ret' = [NoRet EXCEPT !.op = "Hops", !.from = walk.from, !.max = walk.max,
                          !.result = walk.walked \ {walk.from}]
  /\ walk' = [walk EXCEPT !.active = FALSE]
  /\ UNCHANGED <<store, cachedGraph, last, lastDel, fmVars, verifyVars>>

\* The contact stores that hold up to MaxFollows follow entries and
\* nothing else.
FollowStores ==
  {kv \in [Keys -> {Absent, "1"}] :
     Cardinality({k \in Keys : kv[k] = "1"}) <= MaxFollows}

InitHops ==
  /\ InitFMVars
  /\ InitVerifyIdle
  /\ store \in FollowStores
  /\ cachedGraph = NilGraph
  /\ last = [k \in Keys |-> IF store[k] = "1" THEN "FOLLOW" ELSE Absent]
  /\ lastDel = ""
  /\ ret = NoRet
  /\ walk = NoWalk

NextHops == \E from \in Feeds, max \in 0..MaxHops : HopsCall(from, max)

\* Hops called once on a store of follow entries.
SpecHops == InitHops /\ [][NextHops]_vars

\* ------------------------------------------------ contact index, Build

\* Mutant: blocking is tested before following.
RelationByte_blockFirst(following, blocking) ==
  IF blocking THEN "2" ELSE IF following THEN "1" ELSE "0"

\* The switch of indexUpdateFunc: idx.Set(ctx, addr, 1 | 2 | 0).
RelationByte(following, blocking) ==
  IF following THEN "1" ELSE IF blocking THEN "2" ELSE "0"

\* Mutant: the memoized graph survives an index write.
InvalidatedCache_kept == cachedGraph

\* "b.cachedGraph = nil"
InvalidatedCache == NilGraph

\* The events the index sink is handed: a deletion marker, another error
\* value, a value that is no message, a message whose content is no contact,
\* and a contact message.
NonContactEvents ==
  {[kind |-> k, author |-> "", contact |-> "", following |-> FALSE, blocking |-> FALSE] :
     k \in {"nulled", "error", "invalid", "other"}}
ContactEvents ==
  [kind : {"contact"}, author : Authors, contact : Authors,
   following : BOOLEAN, blocking : BOOLEAN]

\* The relation a contact message states (data model): following, else
\* blocking, else none.
ContactState(following, blocking) ==
  IF following THEN "FOLLOW" ELSE IF blocking THEN "BLOCK" ELSE "NONE"

Entries(kv) == {k \in Keys : kv[k] # Absent}

\* Mutant: an event that writes nothing clears the memoized graph too.
SkippedCache_cleared == NilGraph

\* b.cachedGraph after an event that returns before idx.Set: not touched.
SkippedCache == cachedGraph

indexUpdateFunc(ev) ==
  /\ IF ev.kind = "contact"
       THEN LET addr == <<ev.author, ev.contact>>
            IN /\ addr \in Entries(store) \/ Cardinality(Entries(store)) < MaxEntries
               /\ store' = [store EXCEPT ![addr] = RelationByte(ev.following, ev.blocking)]
               /\ cachedGraph' = InvalidatedCache
               /\ last' = [last EXCEPT ![addr] = ContactState(ev.following, ev.blocking)]
               /\ lastDel' = ""
               /\ ret' = NoRet
               /\ walk' = Observed(store')
       ELSE /\ ret' = [NoRet EXCEPT !.err = ev.kind \in {"error", "invalid"}]
            /\ cachedGraph' = SkippedCache
            /\ UNCHANGED <<store, last, lastDel, walk>>
  /\ UNCHANGED <<fmVars, verifyVars>>

\* Mutant: DeleteAuthor drops every key the author is part of.
DeletedKeys_incident(who) == {k \in Keys : k[1] = who \/ k[2] = who}

\* The keys DeleteAuthor drops: those with the prefix storedrefs.Feed(who).
DeletedKeys(who) == {k \in Keys : k[1] = who}

DeleteAuthor(who) ==
  /\ cachedGraph' = NilGraph
  /\ store' = [k \in Keys |-> IF k \in DeletedKeys(who) THEN Absent ELSE store[k]]
  /\ last' = [k \in Keys |-> IF k[1] = who THEN Absent ELSE last[k]]
  /\ lastDel' = who
  /\ ret' = NoRet
  /\ walk' = Observed(store')
  /\ UNCHANGED <<fmVars, verifyVars>>

\* The weight Build gives a value byte: "-inf" (no edge) unless the byte is
\* '1' or '2'.
EdgeWeight(v) == IF v = "1" THEN "1" ELSE IF v = "2" THEN "+inf" ELSE "-inf"

\* A value byte that is none of '0', '1', '2': "barbage value in graph strore".
Garbage == "x"

\* The order the store's iterator yields the feeds' stored refs in.
FeedRank == [f \in Feeds |->
  CASE f = "A" -> 1 [] f = "B" -> 2 [] f = "C" -> 3 [] OTHER -> 4]

\* Key j comes before key k in the scan.
KeyBefore(j, k) ==
  \/ FeedRank[j[1]] < FeedRank[k[1]]
  \/ j[1] = k[1] /\ FeedRank[j[2]] < FeedRank[k[2]]

\* The keys whose value makes the scan return an error: those that are not
\* skipped as "contact self" and hold an unknown byte.
BadKeys(kv) == {k \in Entries(kv) : k[1] # k[2] /\ kv[k] \notin Bytes}

\* Build returns an error.
BuildErr(kv) == BadKeys(kv) # {}

\* The scan of Build: keys whose two halves are equal are skipped, both
\* ends of any other key become nodes, and an edge is set unless the weight
\* is -inf.  The scan ends at the first key with an unknown byte, after
\* its nodes were added.
BuildGraph(kv) ==
  LET scanned == {k \in Entries(kv) :
                    k[1] # k[2] /\ \A j \in BadKeys(kv) : ~KeyBefore(j, k)}
  IN [nil |-> FALSE,
      nodes |-> {k[1] : k \in scanned} \cup {k[2] : k \in scanned},
      edges |-> {[from |-> k[1], to |-> k[2], w |-> EdgeWeight(kv[k]),
                  isBlock |-> EdgeWeight(kv[k]) = "+inf"] :
                   k \in {x \in scanned : EdgeWeight(kv[x]) # "-inf"}}]

\* Build, called once on a store state, and once more after a call that
\* returned an error: the memoized graph when there is one, otherwise the
\* scan, whose graph is memoized whether or not it returned an error.
Build ==
  /\ ret.op # "Build" \/ ret.err
  /\ IF ~cachedGraph.nil
       THEN /\ ret' = [NoRet EXCEPT !.op = "Build", !.graph = cachedGraph]
            /\ UNCHANGED cachedGraph
       ELSE LET dg == BuildGraph(store)
            IN /\ cachedGraph' = dg
               /\ ret' = [NoRet EXCEPT !.op = "Build", !.graph = dg,
                                       !.err = BuildErr(store)]
  /\ UNCHANGED <<store, last, lastDel, walk, fmVars, verifyVars>>

InitIndex ==
  /\ InitFMVars
  /\ InitVerifyIdle
  /\ store = EmptyStore
  /\ cachedGraph = NilGraph
  /\ last = [k \in Keys |-> Absent]
  /\ lastDel = ""
  /\ ret = NoRet
  /\ walk = NoWalk

NextIndex ==
  \/ \E ev \in NonContactEvents \cup ContactEvents : indexUpdateFunc(ev)
  \/ Build

\* The contact index fed from the main log, with Build calls.
SpecIndex == InitIndex /\ [][NextIndex]_vars

NextTrust ==
  \/ \E ev \in NonContactEvents \cup ContactEvents : indexUpdateFunc(ev)
  \/ \E from \in Authors, max \in 0..MaxHops : HopsCall(from, max)

\* The contact index fed from the main log, with Hops calls.
SpecTrust == InitIndex /\ [][NextTrust]_vars

NextGraph ==
  \/ NextIndex
  \/ \E who \in Authors : DeleteAuthor(who)

\* The same with DeleteAuthor calls.
SpecGraph == InitIndex /\ [][NextGraph]_vars

\* --------------------------------------------------- contact graph: claims

\* The feeds f follows according to the store's value bytes.
FollowedBy(f) == {t \in Feeds : store[<<f, t>>] = "1"}

\* C3 as stated: Hops(F, 0) is the set of feeds F follows that also follow
\* F, minus F.
C3_HopsZeroMutual ==
  (ret.op = "Hops" /\ ret.max = 0) =>
    ret.result = {t \in FollowedBy(ret.from) : ret.from \in FollowedBy(t)} \ {ret.from}

\* C3 amended: Hops(F, 0) is the set of feeds F follows, minus F, whether
\* or not they follow F back.
C3_HopsZeroFollows ==
  (ret.op = "Hops" /\ ret.max = 0) =>
    ret.result = FollowedBy(ret.from) \ {ret.from}

C3_Witness ==
  /\ ret.op = "Hops" /\ ret.max = 0
  /\ ret.result = {"B", "C"}
  /\ ret.from \in FollowedBy("B")
  /\ ret.from \notin FollowedBy("C")
  /\ ret.from \in FollowedBy(ret.from)

\* C4: for every feed F, every n and every store, Hops(F, n) is a subset
\* of Hops(F, n+1), whatever order the follow lists are walked in.
C4_HopsMonotone ==
  ret.op = "Hops" =>
    \A r2 \in Hops(store, ret.from, ret.max + 1) : ret.result \subseteq r2

\* The graph has the edge a -> b with this weight and block flag, and no
\* other edge a -> b.
HasOnlyEdge(g, a, b, w, isBlock) ==
  {e \in g.edges : e.from = a /\ e.to = b} =
    {[from |-> a, to |-> b, w |-> w, isBlock |-> isBlock]}

NoEdge(g, a, b) == {e \in g.edges : e.from = a /\ e.to = b} = {}

\* C5: for every pair (A, B) for which A published a contact message
\* naming B, the value stored under A's key for B encodes A's most recent
\* such message: '1' for FOLLOW, '2' for BLOCK, '0' for NONE.
C5_IndexHoldsLatest ==
  \A k \in Keys :
    last[k] # Absent =>
      store[k] = CASE last[k] = "FOLLOW" -> "1"
                   [] last[k] = "BLOCK" -> "2"
                   [] OTHER -> "0"

C5_Witness ==
  /\ last[<<"A", "B">>] = "BLOCK" /\ store[<<"A", "B">>] = "2"
  /\ last[<<"B", "A">>] = "FOLLOW"
  /\ last[<<"A", "C">>] = "NONE" /\ store[<<"A", "C">>] = "0"
  /\ last[<<"C", "C">>] = "FOLLOW"

\* C6: the graph a Build() returns has no self-loop, and for A # B it has
\* the edge A -> B exactly when A's authoritative state toward B is FOLLOW
\* (weight 1, no block) or BLOCK (weight +inf, block); so it is never a
\* memoized graph from before a completed index write.
C6_BuildMatchesContacts ==
  ret.op = "Build" =>
    /\ ~ret.graph.nil
    /\ \A e \in ret.graph.edges : e.from # e.to
    /\ \A a \in Feeds : \A b \in Feeds \ {a} :
         CASE last[<<a, b>>] = "FOLLOW" -> HasOnlyEdge(ret.graph, a, b, "1", FALSE)
           [] last[<<a, b>>] = "BLOCK" -> HasOnlyEdge(ret.graph, a, b, "+inf", TRUE)
           [] OTHER -> NoEdge(ret.graph, a, b)

\* A Build that returns the memoized graph, after writes to a store that
\* had been built before.
C6_Witness ==
  /\ ret.op = "Build"
  /\ HasOnlyEdge(ret.graph, "A", "B", "+inf", TRUE)
  /\ HasOnlyEdge(ret.graph, "B", "A", "1", FALSE)
  /\ last[<<"A", "C">>] = "NONE"
  /\ last[<<"A", "A">>] = "FOLLOW"

\* The largest number of store writes during one Hops call.
MaxWrites == 2
\* The largest number of follow entries in the store a Hops call starts on.
MaxStartFollows == 2

\* The follow and unfollow messages of the authors.
FollowEvents == {ev \in ContactEvents : ~ev.blocking}

\* The stores a concurrent Hops call starts on: up to MaxStartFollows
\* follow entries between the authors.
StartStores ==
  {kv \in [Keys -> {Absent, "1"}] :
     /\ \A k \in Keys : kv[k] = "1" => (k[1] \in Authors /\ k[2] \in Authors /\ k[1] # k[2])
     /\ Cardinality({k \in Keys : kv[k] = "1"}) <= MaxStartFollows}

InitConc ==
  /\ InitFMVars
  /\ InitVerifyIdle
  /\ store \in StartStores
  /\ cachedGraph = NilGraph
  /\ last = [k \in Keys |-> IF store[k] = "1" THEN "FOLLOW" ELSE Absent]
  /\ lastDel = ""
  /\ ret = NoRet
  /\ walk = NoWalk

NextConc ==
  \/ \E from \in Authors, max \in 0..MaxHops : HopsBegin(from, max)
  \/ HopsStep
  \/ HopsEnd
  \/ \E ev \in FollowEvents :
       walk.active /\ walk.writes < MaxWrites /\ indexUpdateFunc(ev)
  \/ \E who \in Authors :
       walk.active /\ walk.writes < MaxWrites /\ DeleteAuthor(who)

\* One Hops call, step by step, with contact index writes and DeleteAuthor
\* calls running beside it.
SpecConc == InitConc /\ [][NextConc]_vars

\* C20: a Hops call that runs beside store writes returns what Hops
\* returns on one of the store states that existed during the call.
C20_HopsOneState ==
  (ret.op = "Hops" /\ walk.ok # {}) => ret.result \in walk.ok

\* The largest number of keys in a store that holds an unknown byte.
MaxCorruptEntries == 3

\* The stores of the authors' keys with one unknown value byte, under a key
\* Build does not skip.
CorruptStores ==
  LET AuthorKeys == Authors \X Authors
      rest == {g \in [AuthorKeys -> {Absent} \cup Bytes] :
                 Cardinality({k \in AuthorKeys : g[k] # Absent})
                   < MaxCorruptEntries}
  IN {[k \in Keys |-> IF k = b THEN Garbage
                      ELSE IF k \in AuthorKeys THEN g[k] ELSE Absent] :
        b \in {k \in AuthorKeys : k[1] # k[2]}, g \in rest}

InitCorrupt ==
  /\ InitFMVars
  /\ InitVerifyIdle
  /\ store \in CorruptStores
  /\ cachedGraph = NilGraph
  /\ last = [k \in Keys |->
               CASE store[k] = "1" -> "FOLLOW" [] store[k] = "2" -> "BLOCK"
                 [] store[k] = "0" -> "NONE" [] OTHER -> Absent]
  /\ lastDel = ""
  /\ ret = NoRet
  /\ walk = NoWalk

NextCorrupt == Build

\* Build calls on a store that holds an unknown byte and is not written.
SpecCorrupt == InitCorrupt /\ [][NextCorrupt]_vars

\* C21: while the store holds an unknown relation byte, every Build
\* reports the error, the first one and those after it.
C21_CorruptionReported ==
  (ret.op = "Build" /\ BuildErr(store)) => ret.err

\* The contact stores of the authors' keys that hold follow entries, among
\* them those of an author for itself and those of two authors for each
\* other.
WalkStores ==
  {[k \in Keys |-> IF k \in fs THEN "1" ELSE Absent] :
     fs \in SUBSET (Authors \X Authors)}

\* The max arguments of the Hops calls.
WalkMax == (0..MaxHops) \cup {MaxInt64}

InitWalk ==
  /\ InitFMVars
  /\ InitVerifyIdle
  /\ store \in WalkStores
  /\ cachedGraph = NilGraph
  /\ last = [k \in Keys |-> IF store[k] = "1" THEN "FOLLOW" ELSE Absent]
  /\ lastDel = ""
  /\ ret = NoRet
  /\ walk = NoWalk

NextWalk ==
  \/ \E from \in Authors, max \in WalkMax : HopsBegin(from, max)
  \/ HopsStep
  \/ HopsEnd

\* One Hops call, step by step, on a store that is not written; a call
\* that can take a step takes it.
SpecWalk ==
  InitWalk /\ [][NextWalk]_vars /\ WF_vars(HopsStep) /\ WF_vars(HopsEnd)

\* C22: a Hops call with max >= 0 never has more than max+1 calls of
\* recurseHops below the first one, and it returns.
C22_HopsReturns ==
  /\ [](walk.active => Len(walk.stack) - 2 <= walk.max)
  /\ (walk.active ~> (~walk.active /\ ret.op = "Hops"))

\* The calls whose max++ does not wrap: with max up to MaxHops the call has
\* at most max+1 calls below the first one and it returns.
HopsReturnsBelowWrap ==
  /\ [](walk.active => Len(walk.stack) - 2 <= walk.max)
  /\ ((walk.active /\ walk.max <= MaxHops) ~> (~walk.active /\ ret.op = "Hops"))

InitVerify ==
  /\ InitFMVars
  /\ InitGraphIdle
  /\ \E msg \in Messages : verified = NotVerified(msg)

NextVerify == VerifyCall

\* Verify called once on a message.
SpecVerify == InitVerify /\ [][NextVerify]_vars

\* C23: a message with a content object is accepted only if its type has
\* 3 to 52 characters, and one whose type has fewer than 3 or more than 52
\* is rejected without its signature being checked.
C23_TypeLength ==
  (verified.called /\ verified.msg.content = "object") =>
    /\ verified.err = "" => verified.msg.type.chars \in 3..52
    /\ verified.msg.type.chars \notin 3..52 =>
         (verified.err # "" /\ ~verified.sigChecked)

\* The events that are skipped without an error: a nulled entry and a
\* message whose content is not a contact.
SkippedEvents == {ev \in NonContactEvents : ev.kind \in {"nulled", "other"}}

\* C18: a nulled entry or a message that is not a contact returns no error
\* and leaves the store and the memoized graph as they are; the memoized
\* graph is cleared only by an event that writes to the store.
C18_SkippedKeepCache ==
  /\ [][(\E ev \in SkippedEvents : indexUpdateFunc(ev)) =>
          (store' = store /\ cachedGraph' = cachedGraph /\ ~ret'.err)]_vars
  /\ [][(~cachedGraph.nil /\ cachedGraph'.nil) =>
          (\E ev \in ContactEvents : indexUpdateFunc(ev))]_vars

\* A skipped event after a Build: the memoized graph is still there.
C18_Witness ==
  /\ ~cachedGraph.nil /\ cachedGraph.edges # {}
  /\ ret.op = "none" /\ ~ret.err

\* C7 as stated: the graph built after DeleteAuthor(A) has no edge leaving
\* or entering A.
C7_NoEdgeIncident ==
  (ret.op = "Build" /\ lastDel # "") =>
    \A e \in ret.graph.edges : e.from # lastDel /\ e.to # lastDel

\* C7 amended: the graph built after DeleteAuthor(A) has no edge leaving A;
\* every other author whose most recent contact message naming A is a
\* follow or a block still has its edge entering A.
C7_NoEdgeLeaving ==
  (ret.op = "Build" /\ lastDel # "") =>
    /\ \A e \in ret.graph.edges : e.from # lastDel
    /\ \A a \in Feeds \ {lastDel} :
         (\E e \in ret.graph.edges : e.from = a /\ e.to = lastDel)
           <=> last[<<a, lastDel>>] \in {"FOLLOW", "BLOCK"}

C7_Witness ==
  /\ ret.op = "Build" /\ lastDel = "A"
  /\ HasOnlyEdge(ret.graph, "B", "A", "1", FALSE)
  /\ HasOnlyEdge(ret.graph, "C", "A", "+inf", TRUE)
  /\ NoEdge(ret.graph, "A", "B")

\* A's most recent contact message naming b is a block.
Blocks(a, b) == last[<<a, b>>] = "BLOCK"

\* C8 as stated: a feed B that A blocks is in no Hops(A, n).
C8_BlockedNotInHops ==
  ret.op = "Hops" =>
    \A b \in Feeds \ {ret.from} : Blocks(ret.from, b) => b \notin ret.result

====
